---- MODULE Spec2Model ----
(***************************************************************************)
(* i3-alternating-layout: the event loop of src/main.rs, its two decision  *)
(* procedures (set_layout, handle_keybind), the status emitter             *)
(* (print_status) and the thread-local PREVIOUS_SPLIT.                     *)
(*                                                                         *)
(* Strings are sequences of one-character strings, so that split(' '),     *)
(* starts_with and chars().last() are computed as the code computes them.  *)
(* The window manager is the environment: its container tree is a state    *)
(* variable that changes between events, and the replies of get_tree and   *)
(* run_command are chosen per event.  The listener is subscribed to Window *)
(* and Binding only (main.rs 43-45), so the items of its stream are window *)
(* events, binding events and Err entries.                                 *)
(***************************************************************************)
EXTENDS Integers, Sequences, FiniteSets, TLC

\* Largest number of containers in the manager's tree.
MaxNodes == 3
\* The count of consecutive Toggle emissions stops at this number.
MaxStreak == 2
\* Largest number of containers in the trees find_focused_parent is run on
\* under SpecSearch.
MaxSearchNodes == 5
\* Longest string over Alphabet handed to from_str on its own.
MaxTokenLen == 3

(***************************************************************************)
(* Option<T> and Result<T, E>                                              *)
(***************************************************************************)
None == <<>>
Some(x) == <<x>>

Ok == "Ok"
\* A handler that does not return: unreachable!() unwinds main.
Panic == "panic"
\* main is inside i3_events.listen().for_each, or it has been unwound.
Listening == "listening"
Unwound == "unwound"
Err == "Err"

(***************************************************************************)
(* enum I3Split (main.rs 9-16) and i3ipc::reply::NodeLayout                *)
(***************************************************************************)
Vertical == "Vertical"
Horizontal == "Horizontal"
Tabbed == "Tabbed"
Stacked == "Stacked"
Toggle == "Toggle"
I3Split == {Vertical, Horizontal, Tabbed, Stacked, Toggle}

NodeLayout_SplitH == "NodeLayout::SplitH"
NodeLayout_SplitV == "NodeLayout::SplitV"
NodeLayout_Stacked == "NodeLayout::Stacked"
NodeLayout_Tabbed == "NodeLayout::Tabbed"
NodeLayout_Output == "NodeLayout::Output"

(***************************************************************************)
(* String literals of the source, as character sequences.                  *)
(***************************************************************************)
SP == <<" ">>
S_v == <<"v">>
S_h == <<"h">>
S_t == <<"t">>
S_s == <<"s">>
S_vertical == <<"v", "e", "r", "t", "i", "c", "a", "l">>
S_horizontal == <<"h", "o", "r", "i", "z", "o", "n", "t", "a", "l">>
S_tabbed == <<"t", "a", "b", "b", "e", "d">>
S_stacked == <<"s", "t", "a", "c", "k", "e", "d">>
S_stacking == <<"s", "t", "a", "c", "k", "i", "n", "g">>
S_toggle == <<"t", "o", "g", "g", "l", "e">>
S_split == <<"s", "p", "l", "i", "t">>
S_move == <<"m", "o", "v", "e">>
S_focus == <<"f", "o", "c", "u", "s">>
S_workspace == <<"w", "o", "r", "k", "s", "p", "a", "c", "e">>
S_layout == <<"l", "a", "y", "o", "u", "t">>
S_split_horizontal == S_split \o SP \o S_horizontal
S_split_vertical == S_split \o SP \o S_vertical

\* The two arrows of print_status: U+2193 (down) and U+2192 (right).
DownArrow == "U+2193"
RightArrow == "U+2192"
\* The lines print_status and set_layout write with println!.
Line_t == S_t
Line_s == S_s
Line_down == <<" ", DownArrow>>
Line_right == <<RightArrow>>
Line_blank == <<>>

(***************************************************************************)
(* impl FromStr for I3Split (main.rs 20-33)                                *)
(***************************************************************************)
\* "t" read as Tabbed.
from_str_t_is_tabbed(s) ==
    CASE s = S_v \/ s = S_vertical -> [ok |-> TRUE, value |-> Vertical]
      [] s = S_h \/ s = S_horizontal -> [ok |-> TRUE, value |-> Horizontal]
      [] s = S_t \/ s = S_tabbed -> [ok |-> TRUE, value |-> Tabbed]
      [] s = S_stacked \/ s = S_stacking -> [ok |-> TRUE, value |-> Stacked]
      [] s = S_toggle -> [ok |-> TRUE, value |-> Toggle]
      [] OTHER -> [ok |-> FALSE, value |-> "I3SplitParseError"]

\* Any other token read as Vertical.
from_str_lenient(s) ==
    CASE s = S_v \/ s = S_vertical -> [ok |-> TRUE, value |-> Vertical]
      [] s = S_h \/ s = S_horizontal -> [ok |-> TRUE, value |-> Horizontal]
      [] s = S_tabbed -> [ok |-> TRUE, value |-> Tabbed]
      [] s = S_stacked \/ s = S_stacking -> [ok |-> TRUE, value |-> Stacked]
      [] s = S_t \/ s = S_toggle -> [ok |-> TRUE, value |-> Toggle]
      [] OTHER -> [ok |-> TRUE, value |-> Vertical]

\* "stacking" not accepted.
from_str_no_stacking(s) ==
    CASE s = S_v \/ s = S_vertical -> [ok |-> TRUE, value |-> Vertical]
      [] s = S_h \/ s = S_horizontal -> [ok |-> TRUE, value |-> Horizontal]
      [] s = S_tabbed -> [ok |-> TRUE, value |-> Tabbed]
      [] s = S_stacked -> [ok |-> TRUE, value |-> Stacked]
      [] s = S_t \/ s = S_toggle -> [ok |-> TRUE, value |-> Toggle]
      [] OTHER -> [ok |-> FALSE, value |-> "I3SplitParseError"]

from_str(s) ==
    CASE s = S_v \/ s = S_vertical -> [ok |-> TRUE, value |-> Vertical]
      [] s = S_h \/ s = S_horizontal -> [ok |-> TRUE, value |-> Horizontal]
      [] s = S_tabbed -> [ok |-> TRUE, value |-> Tabbed]
      [] s = S_stacked \/ s = S_stacking -> [ok |-> TRUE, value |-> Stacked]
      [] s = S_t \/ s = S_toggle -> [ok |-> TRUE, value |-> Toggle]
      [] OTHER -> [ok |-> FALSE, value |-> "I3SplitParseError"]

(***************************************************************************)
(* str::split(' '), str::starts_with, chars().last()                       *)
(***************************************************************************)
RECURSIVE str_split(_)
str_split(s) ==
    IF \A i \in 1..Len(s) : s[i] # " "
    THEN <<s>>
    ELSE LET i == CHOOSE k \in 1..Len(s) :
                      s[k] = " " /\ \A j \in 1..(k - 1) : s[j] # " "
         IN  <<SubSeq(s, 1, i - 1)>> \o str_split(SubSeq(s, i + 1, Len(s)))

starts_with(s, prefix) ==
    Len(s) >= Len(prefix) /\ SubSeq(s, 1, Len(prefix)) = prefix

\* The first character in place of the last.
chars_first(s) == IF s = <<>> THEN None ELSE Some(Head(s))

chars_last(s) == IF s = <<>> THEN None ELSE Some(s[Len(s)])

\* Iterator::next on the token iterator: the head and the rest, or None.
iter_next(it) == IF it = <<>> THEN None ELSE Some(Head(it))

(***************************************************************************)
(* What a handler does to the outside, in order: calls on the I3Connection *)
(* (with the reply), lines on standard output, lines on standard error.    *)
(***************************************************************************)
Call_get_tree(reply) == [op |-> "get_tree", arg |-> <<>>, reply |-> reply]
Call_run_command(cmd, reply) == [op |-> "run_command", arg |-> cmd, reply |-> reply]
Println(line) == [op |-> "println", arg |-> line, reply |-> Ok]
Eprintln == [op |-> "eprintln", arg |-> <<>>, reply |-> Ok]

(***************************************************************************)
(* print_status (main.rs 117-137): the new PREVIOUS_SPLIT and the lines    *)
(* printed.                                                                *)
(***************************************************************************)
RECURSIVE print_status(_, _)

\* RefCell::borrow_mut panics while a Ref of the cell is alive.
BorrowMutError == [op |-> "panic", arg |-> <<>>, reply |-> Err]

borrow_mut(refs, st, prev) ==
    IF refs = <<>> THEN st ELSE [prev |-> prev, out |-> <<BorrowMutError>>]

\* The Ref of the Toggle arm kept alive through the arm's body.
refs_of_toggle_arm_kept == <<"Ref">>

\* The Refs alive when the Toggle arm calls print_status again: none, the
\* Ref of `*prev.borrow() == ...` being a temporary of the if condition.
refs_of_toggle_arm == <<>>

\* print_status storing whatever it is given.
print_status_stores_any(split, prev) ==
    CASE split = Tabbed -> [prev |-> Tabbed, out |-> <<Println(Line_t)>>]
      [] split = Stacked -> [prev |-> Stacked, out |-> <<Println(Line_s)>>]
      [] split = Vertical -> [prev |-> Vertical, out |-> <<Println(Line_down)>>]
      [] split = Horizontal -> [prev |-> Horizontal, out |-> <<Println(Line_right)>>]
      [] split = Toggle ->
            IF prev = Vertical THEN [prev |-> Horizontal, out |-> <<Println(Line_right)>>]
            ELSE IF prev = Horizontal THEN [prev |-> Vertical, out |-> <<Println(Line_down)>>]
            ELSE [prev |-> prev, out |-> <<>>]

\* print_status whose Toggle arm always turns to Vertical.
print_status_toggle_to_vertical(split, prev) ==
    CASE split = Tabbed -> [prev |-> prev, out |-> <<Println(Line_t)>>]
      [] split = Stacked -> [prev |-> prev, out |-> <<Println(Line_s)>>]
      [] split = Vertical -> [prev |-> Vertical, out |-> <<Println(Line_down)>>]
      [] split = Horizontal -> [prev |-> Horizontal, out |-> <<Println(Line_right)>>]
      [] split = Toggle -> [prev |-> Vertical, out |-> <<Println(Line_down)>>]

\* print_status without the write of the Horizontal arm.
print_status_h_not_stored(split, prev) ==
    CASE split = Tabbed -> [prev |-> prev, out |-> <<Println(Line_t)>>]
      [] split = Stacked -> [prev |-> prev, out |-> <<Println(Line_s)>>]
      [] split = Vertical -> [prev |-> Vertical, out |-> <<Println(Line_down)>>]
      [] split = Horizontal -> [prev |-> prev, out |-> <<Println(Line_right)>>]
      [] split = Toggle ->
            IF prev = Vertical THEN [prev |-> prev, out |-> <<Println(Line_right)>>]
            ELSE IF prev = Horizontal THEN [prev |-> Vertical, out |-> <<Println(Line_down)>>]
            ELSE [prev |-> prev, out |-> <<>>]

print_status(split, prev) ==
    CASE split = Tabbed -> [prev |-> prev, out |-> <<Println(Line_t)>>]
      [] split = Stacked -> [prev |-> prev, out |-> <<Println(Line_s)>>]
      [] split = Vertical -> [prev |-> Vertical, out |-> <<Println(Line_down)>>]
      [] split = Horizontal -> [prev |-> Horizontal, out |-> <<Println(Line_right)>>]
      [] split = Toggle ->
            IF prev = Vertical
            THEN borrow_mut(refs_of_toggle_arm, print_status(Horizontal, prev), prev)
            ELSE IF prev = Horizontal
            THEN borrow_mut(refs_of_toggle_arm, print_status(Vertical, prev), prev)
            ELSE [prev |-> prev, out |-> <<>>]

\* A call that prints only when the orientation is not the stored one.
emit_only_changes(split, prev) ==
    IF split = prev
    THEN [prev |-> prev, out |-> <<>>, status |-> Some(split)]
    ELSE LET st == print_status(split, prev)
         IN  [prev |-> st.prev, out |-> st.out, status |-> Some(split)]

\* A call print_status(split) made by a handler: what it did, and its
\* argument.
emit(split, prev) ==
    LET st == print_status(split, prev)
    IN  [prev |-> st.prev, out |-> st.out, status |-> Some(split)]

(***************************************************************************)
(* The container tree: node 1 is the root; tree[i] is a Node with its      *)
(* children (nodes, in list order), focused, layout and rect (x, y, w, h). *)
(***************************************************************************)
Root == 1

RECURSIVE find_focused_parent(_, _)
RECURSIVE find_map(_, _)

\* The search answering with the node it is at, focused child or not.
find_focused_parent_self(t, node) == Some(node)

\* The search stopping at the first node with focus anywhere else in the tree.
find_focused_parent_outermost(t, node) ==
    IF \E i \in DOMAIN t : i # node /\ t[i].focused THEN Some(node) ELSE None

find_focused_parent(t, node) ==
    IF \E i \in 1..Len(t[node].nodes) : t[t[node].nodes[i]].focused
    THEN Some(node)
    ELSE find_map(t, t[node].nodes)

\* find_map going through the children from the last to the first.
find_map_rev(t, ns) ==
    IF ns = <<>> THEN None
    ELSE LET r == find_focused_parent(t, ns[Len(ns)])
         IN  IF r # None THEN r ELSE find_map(t, SubSeq(ns, 1, Len(ns) - 1))

\* Iterator::find_map(find_focused_parent): the first Some, in list order.
find_map(t, ns) ==
    IF ns = <<>> THEN None
    ELSE LET r == find_focused_parent(t, Head(ns))
         IN  IF r # None THEN r ELSE find_map(t, Tail(ns))

(***************************************************************************)
(* set_layout (main.rs 61-93).  i3 holds the replies the connection gives  *)
(* to this call: get_tree (ok with the tree, or not) and run_command.      *)
(***************************************************************************)
I3Connection(t, treeOk, cmdOk) ==
    [get_tree |-> [ok |-> treeOk, value |-> t],
     run_command |-> IF cmdOk THEN Ok ELSE Err]

\* The replies the connection can give to one handler: get_tree fails, or
\* it returns the manager's tree and run_command fails or succeeds.
Replies(t) ==
    { I3Connection(t, FALSE, TRUE),
      I3Connection(t, TRUE, FALSE),
      I3Connection(t, TRUE, TRUE) }

\* What a handler leaves behind: its return value, PREVIOUS_SPLIT, its
\* effects in order, and the argument of its print_status call if it made one.
Returned(ret, prev, effects, status) ==
    [ret |-> ret, prev |-> prev, effects |-> effects, status |-> status]

\* Only Tabbed is recognised.
is_tabbed_only(layout) == layout = NodeLayout_Tabbed

\* matches!(parent.layout, NodeLayout::Tabbed | NodeLayout::Stacked)
is_tabbed_or_stacked(layout) == layout \in {NodeLayout_Tabbed, NodeLayout_Stacked}

\* >= in place of >.
wider_or_square(rect) == rect[3] >= rect[4]

\* parent.rect.2 > parent.rect.3, rect being (x, y, width, height)
wider_than_tall(rect) == rect[3] > rect[4]

\* set_layout going on to print_status when the manager refused the command.
set_layout_ignores_refusal(i3, prev) ==
    IF ~i3.get_tree.ok
    THEN Returned(None, prev, <<Call_get_tree(Err)>>, None)
    ELSE
    LET t == i3.get_tree.value
        fetched == <<Call_get_tree(Ok)>>
        parent == find_focused_parent(t, Root)
    IN  IF parent = None
        THEN Returned(Some("()"), prev, fetched \o <<Println(Line_blank)>>, None)
        ELSE
        LET p == t[parent[1]] IN
        IF is_tabbed_or_stacked(p.layout)
        THEN CASE p.layout = NodeLayout_Tabbed ->
                    LET st == emit(Tabbed, prev)
                    IN  Returned(Some("()"), st.prev, fetched \o st.out, st.status)
               [] p.layout = NodeLayout_Stacked ->
                    LET st == emit(Stacked, prev)
                    IN  Returned(Some("()"), st.prev, fetched \o st.out, st.status)
               [] OTHER -> Returned(Panic, prev, fetched, None)   \* unreachable!()
        ELSE IF wider_than_tall(p.rect)
        THEN LET sent == fetched \o <<Call_run_command(S_split_horizontal, i3.run_command)>>
                 st == emit(Horizontal, prev)
             IN  Returned(Some("()"), st.prev, sent \o st.out, st.status)
        ELSE LET sent == fetched \o <<Call_run_command(S_split_vertical, i3.run_command)>>
                 st == emit(Vertical, prev)
             IN  Returned(Some("()"), st.prev, sent \o st.out, st.status)

\* set_layout calling print_status before it sends the command.
set_layout_prints_first(i3, prev) ==
    IF ~i3.get_tree.ok
    THEN Returned(None, prev, <<Call_get_tree(Err)>>, None)
    ELSE
    LET t == i3.get_tree.value
        fetched == <<Call_get_tree(Ok)>>
        parent == find_focused_parent(t, Root)
    IN  IF parent = None
        THEN Returned(Some("()"), prev, fetched \o <<Println(Line_blank)>>, None)
        ELSE
        LET p == t[parent[1]] IN
        IF is_tabbed_or_stacked(p.layout)
        THEN CASE p.layout = NodeLayout_Tabbed ->
                    LET st == emit(Tabbed, prev)
                    IN  Returned(Some("()"), st.prev, fetched \o st.out, st.status)
               [] p.layout = NodeLayout_Stacked ->
                    LET st == emit(Stacked, prev)
                    IN  Returned(Some("()"), st.prev, fetched \o st.out, st.status)
               [] OTHER -> Returned(Panic, prev, fetched, None)   \* unreachable!()
        ELSE IF wider_than_tall(p.rect)
        THEN LET st == emit(Horizontal, prev)
                 sent == fetched \o st.out
                           \o <<Call_run_command(S_split_horizontal, i3.run_command)>>
             IN  IF i3.run_command = Err
                 THEN Returned(None, st.prev, sent, st.status)
                 ELSE Returned(Some("()"), st.prev, sent, st.status)
        ELSE LET st == emit(Vertical, prev)
                 sent == fetched \o st.out
                           \o <<Call_run_command(S_split_vertical, i3.run_command)>>
             IN  IF i3.run_command = Err
                 THEN Returned(None, st.prev, sent, st.status)
                 ELSE Returned(Some("()"), st.prev, sent, st.status)

set_layout(i3, prev) ==
    IF ~i3.get_tree.ok
    THEN Returned(None, prev, <<Call_get_tree(Err)>>, None)
    ELSE
    LET t == i3.get_tree.value
        fetched == <<Call_get_tree(Ok)>>
        parent == find_focused_parent(t, Root)
    IN  IF parent = None
        THEN Returned(Some("()"), prev, fetched \o <<Println(Line_blank)>>, None)
        ELSE
        LET p == t[parent[1]] IN
        IF is_tabbed_or_stacked(p.layout)
        THEN CASE p.layout = NodeLayout_Tabbed ->
                    LET st == emit(Tabbed, prev)
                    IN  Returned(Some("()"), st.prev, fetched \o st.out, st.status)
               [] p.layout = NodeLayout_Stacked ->
                    LET st == emit(Stacked, prev)
                    IN  Returned(Some("()"), st.prev, fetched \o st.out, st.status)
               [] OTHER -> Returned(Panic, prev, fetched, None)   \* unreachable!()
        ELSE IF wider_than_tall(p.rect)
        THEN LET sent == fetched \o <<Call_run_command(S_split_horizontal, i3.run_command)>>
                 st == emit(Horizontal, prev)
             IN  IF i3.run_command = Err
                 THEN Returned(None, prev, sent, None)
                 ELSE Returned(Some("()"), st.prev, sent \o st.out, st.status)
        ELSE LET sent == fetched \o <<Call_run_command(S_split_vertical, i3.run_command)>>
                 st == emit(Vertical, prev)
             IN  IF i3.run_command = Err
                 THEN Returned(None, prev, sent, None)
                 ELSE Returned(Some("()"), st.prev, sent \o st.out, st.status)

(***************************************************************************)
(* handle_keybind (main.rs 95-115)                                         *)
(***************************************************************************)
\* print_status(token.parse().ok()?)
parse_and_print(token, prev) ==
    LET parsed == from_str(token) IN
    IF ~parsed.ok
    THEN Returned(None, prev, <<>>, None)
    ELSE LET st == emit(parsed.value, prev)
         IN  Returned(Some("()"), st.prev, st.out, st.status)

\* "layout" sent down the arm of move, focus and workspace.
reruns_set_layout_or_layout(token) == token \in {S_move, S_focus, S_workspace, S_layout}

\* "workspace" left to the catch-all arm.
reruns_set_layout_no_workspace(token) == token \in {S_move, S_focus}

\* "move" | "focus" | "workspace"
reruns_set_layout(token) == token \in {S_move, S_focus, S_workspace}

handle_keybind(i3, command, prev) ==
    LET binding == str_split(command)
        first == iter_next(binding)
    IN  IF first = None THEN Returned(None, prev, <<>>, None)
        ELSE
        LET rest == Tail(binding)
            second == iter_next(rest)
        IN  CASE first[1] = S_split ->
                    IF second = None THEN Returned(None, prev, <<>>, None)
                    ELSE parse_and_print(second[1], prev)
              [] reruns_set_layout(first[1]) ->
                    set_layout(i3, prev)
              [] first[1] = S_layout ->
                    IF second = None THEN Returned(None, prev, <<>>, None)
                    ELSE IF starts_with(second[1], S_split)
                    THEN LET last == chars_last(second[1])
                         IN  IF last = None THEN Returned(None, prev, <<>>, None)
                             ELSE parse_and_print(<<last[1]>>, prev)
                    ELSE parse_and_print(second[1], prev)
              [] OTHER -> Returned(Some("()"), prev, <<>>, None)

(***************************************************************************)
(* The manager's side: the trees it can hold and the binding commands it   *)
(* can report.                                                             *)
(***************************************************************************)
\* Layout and rect of a container.  Node i of a tree takes entry
\* ((phase + i) mod Len) of this list, so neighbours differ and every node
\* meets every entry.
NodeAttrs ==
    << [layout |-> NodeLayout_SplitH,  rect |-> <<0, 0, 1920, 1080>>],
       [layout |-> NodeLayout_Tabbed,  rect |-> <<1920, 0, 1080, 1920>>],
       [layout |-> NodeLayout_SplitV,  rect |-> <<1920, 0, 1080, 1920>>],
       [layout |-> NodeLayout_Stacked, rect |-> <<0, 0, 1920, 1080>>],
       [layout |-> NodeLayout_SplitH,  rect |-> <<0, 500, 1000, 1000>>],
       [layout |-> NodeLayout_Tabbed,  rect |-> <<0, 0, 1920, 1080>>],
       [layout |-> NodeLayout_Output,  rect |-> <<0, 0, 1920, 1080>>],
       [layout |-> NodeLayout_Stacked, rect |-> <<1920, 0, 1080, 1920>>] >>

AttrIndex(n) ==
    CHOOSE k \in 1..Len(NodeAttrs) :
        NodeAttrs[k].layout = n.layout /\ NodeAttrs[k].rect = n.rect

NextAttr(k) == NodeAttrs[(k % Len(NodeAttrs)) + 1]

NewNode(attr) ==
    [nodes |-> <<>>, focused |-> FALSE, layout |-> attr.layout, rect |-> attr.rect]

S_bogus_foo == <<"b", "o", "g", "u", "s", " ", "f", "o", "o">>
S_left == <<"l", "e", "f", "t">>
S_foo == <<"f", "o", "o">>
S_splith == S_split \o S_h
S_splitv == S_split \o S_v
S_default == <<"d", "e", "f", "a", "u", "l", "t">>

Commands ==
    { <<>>,
      S_bogus_foo,
      SP \o S_split \o SP \o S_v,
      S_split,
      S_split \o SP \o S_v,
      S_split \o SP \o S_h,
      S_split \o SP \o S_t,
      S_split \o SP \o S_toggle,
      S_split \o SP \o S_vertical,
      S_split \o SP \o S_tabbed,
      S_split \o SP \o S_foo,
      S_split \o SP \o SP \o S_v,
      S_split \o SP \o S_h \o SP \o S_foo,
      S_layout,
      S_layout \o SP \o S_splith,
      S_layout \o SP \o S_splitv,
      S_layout \o SP \o S_split,
      S_layout \o SP \o S_split \o S_s,
      S_layout \o SP \o S_tabbed,
      S_layout \o SP \o S_stacking,
      S_layout \o SP \o S_toggle \o SP \o S_split,
      S_layout \o SP \o S_default,
      S_move \o SP \o S_left,
      S_focus \o SP \o S_left,
      S_focus,
      S_workspace \o SP \o S_foo }

\* The strings from_str is given on its own: the names it accepts, their
\* upper-case and capitalised forms, near misses, and every string over
\* Alphabet up to MaxTokenLen (the empty string among them).
Alphabet == {"v", "h", "t", "s", "T"}

to_uppercase ==
    [c \in {"a", "b", "c", "d", "e", "g", "h", "i", "k", "l", "n", "o", "r",
            "s", "t", "v", "z"} |->
        CASE c = "a" -> "A" [] c = "b" -> "B" [] c = "c" -> "C" [] c = "d" -> "D"
          [] c = "e" -> "E" [] c = "g" -> "G" [] c = "h" -> "H" [] c = "i" -> "I"
          [] c = "k" -> "K" [] c = "l" -> "L" [] c = "n" -> "N" [] c = "o" -> "O"
          [] c = "r" -> "R" [] c = "s" -> "S" [] c = "t" -> "T" [] c = "v" -> "V"
          [] c = "z" -> "Z"]

UpperCase(s) == [i \in 1..Len(s) |-> to_uppercase[s[i]]]
Capitalised(s) == <<to_uppercase[Head(s)]>> \o Tail(s)

Accepted ==
    {S_v, S_vertical, S_h, S_horizontal, S_tabbed, S_stacked, S_stacking, S_t, S_toggle}

Tokens ==
    Accepted
    \cup {UpperCase(s) : s \in Accepted}
    \cup {Capitalised(s) : s \in Accepted}
    \cup {s \o SP : s \in Accepted}
    \cup {SP \o s : s \in Accepted}
    \cup {SubSeq(s, 1, Len(s) - 1) : s \in Accepted}
    \cup {S_splith, S_splitv, S_split, S_foo, S_default}
    \cup UNION {[1..n -> Alphabet] : n \in 0..MaxTokenLen}

(***************************************************************************)
(* State                                                                   *)
(***************************************************************************)
VARIABLES
    PREVIOUS_SPLIT,   \* the thread-local of main.rs 35-37
    tree,             \* the manager's container tree, as get_tree returns it
    event,            \* the last item the listener delivered
    effects,          \* what handling that item did, in order
    emitted,          \* the argument of its print_status call, if any
    before,           \* PREVIOUS_SPLIT when that item arrived
    lastArrow,        \* the orientation of the last arrow line on stdout
    streak,           \* how many items in a row emitted Toggle (to MaxStreak)
    pc,               \* where main is: in the listener's loop, or unwound by a panic
    str,              \* the last string handed to from_str on its own
    parse_result      \* what from_str returned for it

vars == <<PREVIOUS_SPLIT, tree, event, effects, emitted, before, lastArrow, streak,
          pc, str, parse_result>>

NoEvent == [kind |-> "none", command |-> <<>>]

\* The orientation an output line shows, if it is an arrow line.
ArrowOf(line) ==
    IF \E i \in 1..Len(line) : line[i] = DownArrow THEN Vertical
    ELSE IF \E i \in 1..Len(line) : line[i] = RightArrow THEN Horizontal
    ELSE "NoArrow"

Lines(effs) == SelectSeq(effs, LAMBDA e : e.op = "println")
CommandsSent(effs) == SelectSeq(effs, LAMBDA e : e.op = "run_command")
Fetches(effs) == SelectSeq(effs, LAMBDA e : e.op = "get_tree")

RECURSIVE LastArrowIn(_, _)
LastArrowIn(lines, dflt) ==
    IF lines = <<>> THEN dflt
    ELSE LET a == ArrowOf(lines[Len(lines)].arg)
         IN  IF a # "NoArrow" THEN a
             ELSE LastArrowIn(SubSeq(lines, 1, Len(lines) - 1), dflt)

Init ==
    /\ PREVIOUS_SPLIT = Horizontal
    /\ tree = [i \in {Root} |-> NewNode(NodeAttrs[1])]
    /\ event = NoEvent
    /\ effects = <<>>
    /\ emitted = None
    /\ before = Horizontal
    /\ lastArrow = "NoArrow"
    /\ streak = 0
    /\ pc = Listening
    /\ str = <<>>
    /\ parse_result = None

\* The closing of every handler: its effects happened, the store is as the
\* handler left it.
Handled(ev, r) ==
    /\ pc = Listening
    /\ pc' = IF r.ret = Panic \/ \E i \in 1..Len(r.effects) : r.effects[i] = BorrowMutError
             THEN Unwound ELSE Listening
    /\ PREVIOUS_SPLIT' = r.prev
    /\ event' = ev
    /\ effects' = r.effects
    /\ emitted' = r.status
    /\ before' = PREVIOUS_SPLIT
    /\ lastArrow' = LastArrowIn(Lines(r.effects), lastArrow)
    /\ streak' = IF r.status # Some(Toggle) THEN 0
                 ELSE IF streak < MaxStreak THEN streak + 1 ELSE MaxStreak
    /\ UNCHANGED <<tree, str, parse_result>>

(***************************************************************************)
(* The closure of main (main.rs 47-58), one action per kind of item.       *)
(***************************************************************************)
\* Ok(Event::WindowEvent(_)) => set_layout(&mut i3)
WindowEvent ==
    \E r \in {set_layout(i3, PREVIOUS_SPLIT) : i3 \in Replies(tree)} :
        Handled([kind |-> "window", command |-> <<>>], r)

\* Ok(Event::BindingEvent(e)) => handle_keybind(&mut i3, e)
BindingEvent(command) ==
    \E r \in {handle_keybind(i3, command, PREVIOUS_SPLIT) : i3 \in Replies(tree)} :
        Handled([kind |-> "binding", command |-> command], r)

\* The Err entry reported and then given a blank line on standard output.
ErrEvent_prints_blank ==
    \E r \in {Returned(None, PREVIOUS_SPLIT, <<Eprintln, Println(Line_blank)>>, None)} :
        Handled([kind |-> "err", command |-> <<>>], r)

\* Err(_) => eprintln!, return
ErrEvent ==
    \E r \in {Returned(None, PREVIOUS_SPLIT, <<Eprintln>>, None)} :
        Handled([kind |-> "err", command |-> <<>>], r)

\* from_str on its own (main.rs 23-32), reached through str::parse.
Parse(s) ==
    /\ str' = s
    /\ parse_result' = Some(from_str(s))
    /\ UNCHANGED <<PREVIOUS_SPLIT, tree, event, effects, emitted, before, lastArrow,
                   streak, pc>>

(***************************************************************************)
(* The manager changes its tree between events.                            *)
(***************************************************************************)
FocusChanges(i) ==
    /\ i \in DOMAIN tree
    /\ tree' = [tree EXCEPT ![i].focused = ~@]
    /\ UNCHANGED <<PREVIOUS_SPLIT, pc, event, effects, emitted, before, lastArrow, streak,
                   str, parse_result>>

LayoutChanges ==
    /\ tree' = [i \in DOMAIN tree |->
                  LET a == NextAttr(AttrIndex(tree[i]))
                  IN  [tree[i] EXCEPT !.layout = a.layout, !.rect = a.rect]]
    /\ UNCHANGED <<PREVIOUS_SPLIT, pc, event, effects, emitted, before, lastArrow, streak,
                   str, parse_result>>

Opens(parent, max) ==
    LET n == Cardinality(DOMAIN tree) IN
    /\ n < max
    /\ parent \in DOMAIN tree
    /\ tree' = [i \in 1..(n + 1) |->
                  IF i = n + 1
                  THEN NewNode(NodeAttrs[((AttrIndex(tree[Root]) + n - 1) % Len(NodeAttrs)) + 1])
                  ELSE IF i = parent
                  THEN [tree[i] EXCEPT !.nodes = Append(@, n + 1)]
                  ELSE tree[i]]
    /\ UNCHANGED <<PREVIOUS_SPLIT, pc, event, effects, emitted, before, lastArrow, streak,
                   str, parse_result>>

ContainerOpens(parent) == Opens(parent, MaxNodes)

ContainerCloses ==
    LET n == Cardinality(DOMAIN tree) IN
    /\ n > 1
    /\ tree' = [i \in 1..(n - 1) |->
                  [tree[i] EXCEPT !.nodes = SelectSeq(@, LAMBDA c : c # n)]]
    /\ UNCHANGED <<PREVIOUS_SPLIT, pc, event, effects, emitted, before, lastArrow, streak,
                   str, parse_result>>

Next ==
    \/ WindowEvent
    \/ \E command \in Commands : BindingEvent(command)
    \/ ErrEvent
    \/ \E i \in 1..MaxNodes : FocusChanges(i)
    \/ LayoutChanges
    \/ \E parent \in 1..MaxNodes : ContainerOpens(parent)
    \/ ContainerCloses

Spec == Init /\ [][Next]_vars

\* The parser alone, on every string of Tokens.
NextParse == \E s \in Tokens : Parse(s)

SpecParse == Init /\ [][NextParse]_vars

\* Window events on trees of up to MaxSearchNodes containers.
NextSearch ==
    \/ WindowEvent
    \/ \E i \in 1..MaxSearchNodes : FocusChanges(i)
    \/ \E parent \in 1..MaxSearchNodes : Opens(parent, MaxSearchNodes)
    \/ ContainerCloses

SpecSearch == Init /\ [][NextSearch]_vars

(***************************************************************************)
(* Properties                                                              *)
(***************************************************************************)
\* A step that handles an item of the stream: the manager's tree is the one
\* the handler saw.  (Every other step changes the tree.)
EventStep == tree' = tree

FetchedOk(effs) == Fetches(effs) = <<Call_get_tree(Ok)>>
NoCommandFailed(effs) == \A i \in 1..Len(effs) : effs[i].reply = Ok

FocusedNodes(t) == {i \in DOMAIN t : t[i].focused}
Children(t, i) == {t[i].nodes[k] : k \in 1..Len(t[i].nodes)}
ParentOf(t, i) == CHOOSE p \in DOMAIN t : i \in Children(t, p)
\* The tree of a running manager: one focused container, below the root.
OneFocused(t) == Cardinality(FocusedNodes(t)) = 1 /\ Root \notin FocusedNodes(t)
TheFocused(t) == CHOOSE i \in DOMAIN t : t[i].focused
FocusedParent(t) == t[ParentOf(t, TheFocused(t))]

\* C1: PREVIOUS_SPLIT holds Vertical or Horizontal in every reachable state,
\* whatever window events, keybindings, malformed entries, failed fetches and
\* failed commands came before.
Inv_C1 == PREVIOUS_SPLIT \in {Vertical, Horizontal}

\* Toggle was emitted from Horizontal and the store now holds Vertical.
Wit_C1 ==
    /\ emitted = Some(Toggle)
    /\ before = Horizontal
    /\ PREVIOUS_SPLIT = Vertical

\* C2: the store is the orientation of the last arrow line written to
\* standard output, Horizontal while there is none; the handling of an item
\* that prints an arrow line leaves that arrow's orientation in the store,
\* and the handling of an item that prints 't', 's', a blank line or nothing
\* leaves the store as it was.
Inv_C2 ==
    /\ PREVIOUS_SPLIT = (IF lastArrow = "NoArrow" THEN Horizontal ELSE lastArrow)
    /\ LET shown == LastArrowIn(Lines(effects), "NoArrow")
       IN  IF shown = "NoArrow" THEN PREVIOUS_SPLIT = before
           ELSE PREVIOUS_SPLIT = shown

\* A 't' line was just printed after a down arrow: the store still is Vertical.
Wit_C2 ==
    /\ Lines(effects) = <<Println(Line_t)>>
    /\ lastArrow = Vertical
    /\ PREVIOUS_SPLIT = Vertical

\* What C3 expects of a successful split decision.
SplitDone(effs, store, cmd, orientation) ==
    /\ CommandsSent(effs) = <<Call_run_command(cmd, Ok)>>
    /\ Len(Lines(effs)) = 1
    /\ ArrowOf(Lines(effs)[1].arg) = orientation
    /\ store = orientation

\* C3: a window event with the tree fetched, no command refused and the
\* focused node's parent neither Tabbed nor Stacked sends "split horizontal",
\* prints the right arrow and stores Horizontal when the parent's width
\* exceeds its height; otherwise (height greater, or equal) it sends
\* "split vertical", prints the down arrow and stores Vertical.
Prop_C3 ==
    [][ ( /\ EventStep
          /\ event'.kind = "window"
          /\ OneFocused(tree)
          /\ FetchedOk(effects')
          /\ NoCommandFailed(effects')
          /\ FocusedParent(tree).layout \notin {NodeLayout_Tabbed, NodeLayout_Stacked} )
        => IF FocusedParent(tree).rect[3] > FocusedParent(tree).rect[4]
           THEN SplitDone(effects', PREVIOUS_SPLIT', S_split_horizontal, Horizontal)
           ELSE SplitDone(effects', PREVIOUS_SPLIT', S_split_vertical, Vertical) ]_vars

\* The tie: a square parent got "split vertical" and the down arrow.
Wit_C3 ==
    /\ event.kind = "window"
    /\ OneFocused(tree)
    /\ FocusedParent(tree).layout = NodeLayout_SplitH
    /\ FocusedParent(tree).rect[3] = FocusedParent(tree).rect[4]
    /\ effects = <<Call_get_tree(Ok), Call_run_command(S_split_vertical, Ok),
                   Println(Line_down)>>
    /\ before = Horizontal
    /\ PREVIOUS_SPLIT = Vertical

\* C4: a window event whose focused node's parent is Tabbed (Stacked) prints
\* exactly the line 't' ('s'), sends no command and leaves the store alone,
\* whatever the parent's width and height.
Prop_C4 ==
    [][ ( /\ EventStep
          /\ event'.kind = "window"
          /\ OneFocused(tree)
          /\ FetchedOk(effects')
          /\ FocusedParent(tree).layout \in {NodeLayout_Tabbed, NodeLayout_Stacked} )
        => /\ effects' = <<Call_get_tree(Ok),
                           Println(IF FocusedParent(tree).layout = NodeLayout_Tabbed
                                   THEN Line_t ELSE Line_s)>>
           /\ PREVIOUS_SPLIT' = PREVIOUS_SPLIT ]_vars

\* A Stacked parent wider than tall: 's', no command, the store still Vertical.
Wit_C4 ==
    /\ event.kind = "window"
    /\ OneFocused(tree)
    /\ FocusedParent(tree).layout = NodeLayout_Stacked
    /\ FocusedParent(tree).rect[3] > FocusedParent(tree).rect[4]
    /\ effects = <<Call_get_tree(Ok), Println(Line_s)>>
    /\ before = Vertical
    /\ PREVIOUS_SPLIT = Vertical

\* A handler that runs set_layout: a window event, or a binding whose first
\* token is move, focus or workspace.
RunsSetLayout(ev) ==
    \/ ev.kind = "window"
    \/ /\ ev.kind = "binding"
       /\ str_split(ev.command)[1] \in {S_move, S_focus, S_workspace}

\* C5: on a tree with no focused node, find_focused_parent returns None, and
\* set_layout (the fetch having succeeded) prints exactly one blank line,
\* sends no command and leaves the store alone.
Prop_C5 ==
    [][ ( /\ EventStep
          /\ RunsSetLayout(event')
          /\ FocusedNodes(tree) = {}
          /\ FetchedOk(effects') )
        => /\ find_focused_parent(tree, Root) = None
           /\ effects' = <<Call_get_tree(Ok), Println(Line_blank)>>
           /\ PREVIOUS_SPLIT' = PREVIOUS_SPLIT ]_vars

\* A blank line for a tree of three containers, none focused.
Wit_C5 ==
    /\ event.kind = "window"
    /\ Cardinality(DOMAIN tree) >= 3
    /\ FocusedNodes(tree) = {}
    /\ effects = <<Call_get_tree(Ok), Println(Line_blank)>>
    /\ before = Vertical
    /\ PREVIOUS_SPLIT = Vertical

RECURSIVE AncestorsOf(_, _)
AncestorsOf(t, i) ==
    IF i = Root THEN {}
    ELSE {ParentOf(t, i)} \cup AncestorsOf(t, ParentOf(t, i))

RECURSIVE DepthOf(_, _)
DepthOf(t, i) == IF i = Root THEN 0 ELSE 1 + DepthOf(t, ParentOf(t, i))

\* The ancestors of i that have a focused direct child.
AncestorsWithFocusedChild(t, i) ==
    {a \in AncestorsOf(t, i) : \E c \in Children(t, a) : t[c].focused}

Innermost(t, as) == CHOOSE a \in as : \A b \in as : DepthOf(t, a) >= DepthOf(t, b)

\* C6: in a tree with one focused node, if some ancestor of that node has a
\* focused direct child, find_focused_parent returns the innermost such
\* ancestor, never one further from the focused node.
Inv_C6 ==
    ( /\ Cardinality(FocusedNodes(tree)) = 1
      /\ AncestorsWithFocusedChild(tree, TheFocused(tree)) # {} )
    => find_focused_parent(tree, Root)
         = Some(Innermost(tree, AncestorsWithFocusedChild(tree, TheFocused(tree))))

\* Focus two levels down: the window event reported the Tabbed parent, not
\* the root above it.
Wit_C6 ==
    /\ event.kind = "window"
    /\ OneFocused(tree)
    /\ ParentOf(tree, TheFocused(tree)) # Root
    /\ find_focused_parent(tree, Root) = Some(ParentOf(tree, TheFocused(tree)))
    /\ FocusedParent(tree).layout = NodeLayout_Tabbed
    /\ tree[Root].layout # NodeLayout_Tabbed
    /\ effects = <<Call_get_tree(Ok), Println(Line_t)>>

OneLine(effs) == Len(effs) = 1 /\ effs[1].op = "println"

\* C7: two Toggle emissions in a row, no other item between them, print one
\* line each and leave the store as it was before the first; from Horizontal
\* the store passes through Vertical, the lines being the down arrow and then
\* the right arrow.
Prop_C7 ==
    [][ ( /\ EventStep
          /\ emitted = Some(Toggle)
          /\ emitted' = Some(Toggle) )
        => /\ OneLine(effects)
           /\ OneLine(effects')
           /\ PREVIOUS_SPLIT' = before
           /\ before = Horizontal
                => /\ ArrowOf(effects[1].arg) = Vertical
                   /\ PREVIOUS_SPLIT = Vertical
                   /\ ArrowOf(effects'[1].arg) = Horizontal
                   /\ PREVIOUS_SPLIT' = Horizontal ]_vars

\* The second of two Toggles in a row brought the store back to Horizontal.
Wit_C7 ==
    /\ streak = 2
    /\ before = Vertical
    /\ PREVIOUS_SPLIT = Horizontal
    /\ effects = <<Println(Line_right)>>

\* The token handle_keybind is to read as an Orientation: the one after
\* "split"; after "layout" the last character of a token that starts with
\* "split", and the whole token otherwise.  None when there is no such token.
OrientationToken(command) ==
    LET tokens == str_split(command) IN
    IF Len(tokens) < 2 THEN None
    ELSE IF tokens[1] = S_layout /\ starts_with(tokens[2], S_split)
         THEN Some(<<tokens[2][Len(tokens[2])]>>)
         ELSE Some(tokens[2])

\* The tokens that name an Orientation, and the Orientation each names.
OrientationNames ==
    { <<S_v, Vertical>>, <<S_vertical, Vertical>>,
      <<S_h, Horizontal>>, <<S_horizontal, Horizontal>>,
      <<S_tabbed, Tabbed>>,
      <<S_stacked, Stacked>>, <<S_stacking, Stacked>>,
      <<S_t, Toggle>>, <<S_toggle, Toggle>> }

NamesOrientation(token) == \E p \in OrientationNames : p[1] = token
OrientationNamed(token) == (CHOOSE p \in OrientationNames : p[1] = token)[2]

\* The table of the status emitter: the line for an orientation (Toggle taken
\* as the opposite of the store) and the store afterwards.
Resolved(o, store) ==
    IF o = Toggle THEN (IF store = Vertical THEN Horizontal ELSE Vertical) ELSE o

StatusEmitted(o, effs, storeBefore, storeAfter) ==
    /\ OneLine(effs)
    /\ CASE Resolved(o, storeBefore) = Tabbed ->
                effs[1].arg = Line_t /\ storeAfter = storeBefore
         [] Resolved(o, storeBefore) = Stacked ->
                effs[1].arg = Line_s /\ storeAfter = storeBefore
         [] OTHER ->
                /\ ArrowOf(effs[1].arg) = Resolved(o, storeBefore)
                /\ storeAfter = Resolved(o, storeBefore)

\* C8: a binding whose first token is "split" or "layout" sends no command
\* and fetches no tree, whatever follows; when its orientation token parses,
\* the status of that orientation is emitted ("layout splith": the right
\* arrow, the store Horizontal).
Inv_C8 ==
    ( /\ event.kind = "binding"
      /\ str_split(event.command)[1] \in {S_split, S_layout} )
    => /\ CommandsSent(effects) = <<>>
       /\ Fetches(effects) = <<>>
       /\ LET token == OrientationToken(event.command) IN
          (token # None /\ NamesOrientation(token[1]))
             => StatusEmitted(OrientationNamed(token[1]), effects, before, PREVIOUS_SPLIT)
       /\ event.command = S_layout \o SP \o S_splith
             => /\ effects = <<Println(Line_right)>>
                /\ PREVIOUS_SPLIT = Horizontal

\* "layout splith" with the store Vertical: the right arrow and nothing else.
Wit_C8 ==
    /\ event = [kind |-> "binding", command |-> S_layout \o SP \o S_splith]
    /\ before = Vertical
    /\ effects = <<Println(Line_right)>>
    /\ PREVIOUS_SPLIT = Horizontal

\* C9: the binding "split t" (or "split toggle") prints exactly one line and
\* sends no command: with the store Vertical the right arrow, the store
\* becoming Horizontal; with the store Horizontal the down arrow, the store
\* becoming Vertical.
Inv_C9 ==
    ( /\ event.kind = "binding"
      /\ event.command \in {S_split \o SP \o S_t, S_split \o SP \o S_toggle} )
    => /\ OneLine(effects)
       /\ before = Vertical
            => ArrowOf(effects[1].arg) = Horizontal /\ PREVIOUS_SPLIT = Horizontal
       /\ before = Horizontal
            => ArrowOf(effects[1].arg) = Vertical /\ PREVIOUS_SPLIT = Vertical

\* "split t" with the store Vertical.
Wit_C9 ==
    /\ event = [kind |-> "binding", command |-> S_split \o SP \o S_t]
    /\ before = Vertical
    /\ effects = <<Println(Line_right)>>
    /\ PREVIOUS_SPLIT = Horizontal

Silent == effects = <<>> /\ PREVIOUS_SPLIT = before

UnknownVerb(command) ==
    str_split(command)[1] \notin {S_split, S_move, S_focus, S_workspace, S_layout}

\* C10 as stated: a binding whose first token is none of split, move, focus,
\* workspace, layout, or is split or layout with the NEXT TOKEN missing or
\* not parsing as an Orientation, prints nothing, sends nothing and leaves
\* the store alone.
Orig_C10 ==
    ( /\ event.kind = "binding"
      /\ \/ UnknownVerb(event.command)
         \/ /\ str_split(event.command)[1] \in {S_split, S_layout}
            /\ \/ Len(str_split(event.command)) < 2
               \/ ~NamesOrientation(str_split(event.command)[2]) )
    => Silent

\* C10, amended: a binding whose first token is none of split, move, focus,
\* workspace, layout, or is split or layout with the next token missing or
\* with an ORIENTATION TOKEN (after "layout", the last character of a next
\* token that starts with "split") that does not parse, prints nothing,
\* sends nothing and leaves the store alone.
Inv_C10 ==
    ( /\ event.kind = "binding"
      /\ \/ UnknownVerb(event.command)
         \/ /\ str_split(event.command)[1] \in {S_split, S_layout}
            /\ \/ OrientationToken(event.command) = None
               \/ ~NamesOrientation(OrientationToken(event.command)[1]) )
    => Silent

\* "split foo" reached with the store Vertical: nothing printed, nothing sent.
Wit_C10 ==
    /\ event = [kind |-> "binding", command |-> S_split \o SP \o S_foo]
    /\ before = Vertical
    /\ effects = <<>>
    /\ PREVIOUS_SPLIT = Vertical

\* The commands of the model whose first token is move, focus or workspace.
MoveFocusWorkspace ==
    {command \in Commands : str_split(command)[1] \in {S_move, S_focus, S_workspace}}

\* What a handler did that the outside can see, and the store it left.
Outcome(r) == [effects |-> r.effects, store |-> r.prev]

\* C11: a binding whose first token is move, focus or workspace does what a
\* window event does on the same tree, with the same replies of the manager
\* and the same store: the same fetch, command and line in the same order,
\* the same store afterwards, whatever tokens follow the first.
Inv_C11 ==
    /\ MoveFocusWorkspace # {}
    /\ \A i3 \in Replies(tree) :
          \A command \in MoveFocusWorkspace :
              Outcome(handle_keybind(i3, command, PREVIOUS_SPLIT))
                = Outcome(set_layout(i3, PREVIOUS_SPLIT))

\* "workspace foo" on a wide split parent, the store Vertical: fetch, "split
\* horizontal", right arrow, as the window event on this tree does.
Wit_C11 ==
    /\ event = [kind |-> "binding", command |-> S_workspace \o SP \o S_foo]
    /\ before = Vertical
    /\ effects = <<Call_get_tree(Ok), Call_run_command(S_split_horizontal, Ok),
                   Println(Line_right)>>
    /\ PREVIOUS_SPLIT = Horizontal
    /\ set_layout(I3Connection(tree, TRUE, TRUE), before).effects = effects

\* C12: from_str maps "v" and "vertical" to Vertical, "h" and "horizontal" to
\* Horizontal, "tabbed" to Tabbed, "stacked" and "stacking" to Stacked, "t"
\* and "toggle" to Toggle, each name to one variant, and fails on every other
\* string, the empty string and the upper-case forms among them.
Inv_C12 ==
    /\ \A p, q \in OrientationNames : p[1] = q[1] => p[2] = q[2]
    /\ parse_result # None
         => /\ parse_result[1].ok = NamesOrientation(str)
            /\ NamesOrientation(str) => parse_result[1].value = OrientationNamed(str)
            /\ str \in {<<>>} \cup {UpperCase(s) : s \in Accepted} => ~parse_result[1].ok

\* "stacking" was parsed to Stacked.
Wit_C12 ==
    /\ str = S_stacking
    /\ parse_result = Some([ok |-> TRUE, value |-> Stacked])

\* C13: no item of the stream ends the loop: a window event, a binding with
\* any command, an Err entry, with the fetch or the command failing or not,
\* is handled to its end and main is back in the listener's loop; no
\* reachable state is one where a panic has unwound main.
Inv_C13 == pc = Listening

\* The manager refused "split vertical": the handler returned early and main
\* is listening.
Wit_C13 ==
    /\ pc = Listening
    /\ event.kind = "window"
    /\ effects = <<Call_get_tree(Ok), Call_run_command(S_split_vertical, Err)>>

\* A binding "layout X ..." with X starting with "split".
LayoutSplitX(ev) ==
    /\ ev.kind = "binding"
    /\ Len(str_split(ev.command)) >= 2
    /\ str_split(ev.command)[1] = S_layout
    /\ starts_with(str_split(ev.command)[2], S_split)

\* The last character of X.
EndOfX(ev) == LET X == str_split(ev.command)[2] IN X[Len(X)]

Arrow(orientation) ==
    /\ OneLine(effects)
    /\ ArrowOf(effects[1].arg) = orientation
    /\ PREVIOUS_SPLIT = orientation

\* C14 as stated: "layout X" with X starting with "split" prints the right
\* arrow and stores Horizontal when X ends in h, prints the down arrow and
\* stores Vertical when X ends in v, and for EVERY OTHER X ("split" itself
\* among them) prints nothing and leaves the store alone.
Orig_C14 ==
    LayoutSplitX(event)
    => CASE EndOfX(event) = "h" -> Arrow(Horizontal)
         [] EndOfX(event) = "v" -> Arrow(Vertical)
         [] OTHER -> Silent

\* C14, amended: "layout X" with X starting with "split" prints the right
\* arrow and stores Horizontal when X ends in h, prints the down arrow and
\* stores Vertical when X ends in v, prints the arrow opposite to the store
\* and stores it WHEN X ENDS IN t ("split" itself among these), and for every
\* other X prints nothing and leaves the store alone.
Inv_C14 ==
    LayoutSplitX(event)
    => CASE EndOfX(event) = "h" -> Arrow(Horizontal)
         [] EndOfX(event) = "v" -> Arrow(Vertical)
         [] EndOfX(event) = "t" ->
                Arrow(IF before = Vertical THEN Horizontal ELSE Vertical)
         [] OTHER -> Silent

\* "layout split" with the store Horizontal: the down arrow, the store Vertical.
Wit_C14 ==
    /\ event = [kind |-> "binding", command |-> S_layout \o SP \o S_split]
    /\ before = Horizontal
    /\ effects = <<Println(Line_down)>>
    /\ PREVIOUS_SPLIT = Vertical

\* The command set_layout sends for an orientation.
SplitCommand(orientation) ==
    IF orientation = Horizontal THEN S_split_horizontal ELSE S_split_vertical

\* C15: in a handler that runs set_layout, a failed fetch or a refused split
\* command means no line on standard output and the store as it was; an
\* arrow line is printed only directly after the split command of the same
\* orientation was sent and accepted, in the same event.
Inv_C15 ==
    RunsSetLayout(event)
    => /\ (\E i \in 1..Len(effects) : effects[i].reply = Err)
             => Lines(effects) = <<>> /\ PREVIOUS_SPLIT = before
       /\ \A i \in 1..Len(effects) :
             (effects[i].op = "println" /\ ArrowOf(effects[i].arg) # "NoArrow")
             => /\ i > 1
                /\ effects[i - 1]
                     = Call_run_command(SplitCommand(ArrowOf(effects[i].arg)), Ok)

\* "split horizontal" refused with the store Vertical: no line, still Vertical.
Wit_C15 ==
    /\ event.kind = "window"
    /\ effects = <<Call_get_tree(Ok), Call_run_command(S_split_horizontal, Err)>>
    /\ before = Vertical
    /\ PREVIOUS_SPLIT = Vertical

\* C16: whenever Toggle is emitted, exactly one line is printed, an arrow,
\* and the store goes from one of Vertical, Horizontal to the other; the
\* Toggle arm's case of a store that is neither, which prints nothing, is
\* not taken.
Inv_C16 ==
    emitted = Some(Toggle)
    => /\ before \in {Vertical, Horizontal}
       /\ OneLine(effects)
       /\ ArrowOf(effects[1].arg) = PREVIOUS_SPLIT
       /\ PREVIOUS_SPLIT \in {Vertical, Horizontal} \ {before}

\* "layout toggle split" with the store Vertical: the right arrow, Horizontal.
Wit_C16 ==
    /\ event = [kind |-> "binding",
                command |-> S_layout \o SP \o S_toggle \o SP \o S_split]
    /\ emitted = Some(Toggle)
    /\ before = Vertical
    /\ effects = <<Println(Line_right)>>
    /\ PREVIOUS_SPLIT = Horizontal

\* The nodes of the subtree at node, depth first, children in list order.
RECURSIVE Preorder(_, _)
RECURSIVE PreorderAll(_, _)
Preorder(t, node) == <<node>> \o PreorderAll(t, t[node].nodes)
PreorderAll(t, ns) ==
    IF ns = <<>> THEN <<>> ELSE Preorder(t, Head(ns)) \o PreorderAll(t, Tail(ns))

HasFocusedChild(t, n) == \E c \in Children(t, n) : t[c].focused

\* C17: on every tree, trees with several focused nodes among them,
\* find_focused_parent returns the first node in preorder (depth first,
\* children in list order) that has a focused direct child, and None when no
\* node has one (so when only the root is focused).
Inv_C17 ==
    LET matches == SelectSeq(Preorder(tree, Root), LAMBDA n : HasFocusedChild(tree, n))
    IN  /\ find_focused_parent(tree, Root)
             = (IF matches = <<>> THEN None ELSE Some(matches[1]))
        /\ FocusedNodes(tree) \subseteq {Root} => find_focused_parent(tree, Root) = None

\* Two children of the root, each with a focused child of its own: the
\* window event fetched this tree and the search stops in the first subtree.
Wit_C17 ==
    /\ event.kind = "window"
    /\ FetchedOk(effects)
    /\ Cardinality(DOMAIN tree) = 5
    /\ Len(tree[Root].nodes) = 2
    /\ \A k \in 1..2 : /\ ~tree[tree[Root].nodes[k]].focused
                       /\ HasFocusedChild(tree, tree[Root].nodes[k])
    /\ find_focused_parent(tree, Root) = Some(tree[Root].nodes[1])

\* C18: the handling of one item prints at most one line and sends at most
\* one command; a command is sent only by a window event or a binding whose
\* first token is move, focus or workspace; a command sent in an event comes
\* before the line printed in it.
Inv_C18 ==
    /\ Len(Lines(effects)) <= 1
    /\ Len(CommandsSent(effects)) <= 1
    /\ CommandsSent(effects) # <<>> => RunsSetLayout(event)
    /\ \A i, j \in 1..Len(effects) :
          (effects[i].op = "run_command" /\ effects[j].op = "println") => i < j

\* "move left": the fetch, then "split vertical", then the down arrow.
Wit_C18 ==
    /\ event = [kind |-> "binding", command |-> S_move \o SP \o S_left]
    /\ effects = <<Call_get_tree(Ok), Call_run_command(S_split_vertical, Ok),
                   Println(Line_down)>>

\* C19: an Err entry of the stream is reported on standard error only: no
\* line on standard output, no fetch, no command, the store and the loop as
\* they were; so the next item (a window event, the binding "split t") is
\* handled as it would have been without the entry.
Prop_C19 ==
    [][ (EventStep /\ event'.kind = "err")
        => /\ effects' = <<Eprintln>>
           /\ Lines(effects') = <<>>
           /\ Fetches(effects') = <<>>
           /\ CommandsSent(effects') = <<>>
           /\ PREVIOUS_SPLIT' = PREVIOUS_SPLIT
           /\ pc' = pc
           /\ \A i3 \in Replies(tree) :
                 /\ set_layout(i3, PREVIOUS_SPLIT') = set_layout(i3, PREVIOUS_SPLIT)
                 /\ handle_keybind(i3, S_split \o SP \o S_t, PREVIOUS_SPLIT')
                      = handle_keybind(i3, S_split \o SP \o S_t, PREVIOUS_SPLIT) ]_vars

\* An Err entry arrived with the store Vertical: reported, the store Vertical.
Wit_C19 ==
    /\ event.kind = "err"
    /\ effects = <<Eprintln>>
    /\ before = Vertical
    /\ PREVIOUS_SPLIT = Vertical
    /\ pc = Listening

\* An arrow line among the effects.
PrintsArrow(effs) ==
    \E i \in 1..Len(effs) : effs[i].op = "println" /\ ArrowOf(effs[i].arg) # "NoArrow"

\* C20: what set_layout fetches, sends and prints does not depend on the
\* store: on the same tree and with the same replies, a window event (or a
\* move, focus or workspace binding) started with the store Vertical and one
\* started with the store Horizontal have the same effects, and when they
\* print an arrow they leave the same store.
Inv_C20 ==
    \A i3 \in Replies(tree) :
        /\ LET v == set_layout(i3, Vertical)
               h == set_layout(i3, Horizontal)
           IN  /\ v.effects = h.effects
               /\ PrintsArrow(v.effects) => v.prev = h.prev
        /\ \A command \in MoveFocusWorkspace :
              LET v == handle_keybind(i3, command, Vertical)
                  h == handle_keybind(i3, command, Horizontal)
              IN  /\ v.effects = h.effects
                  /\ PrintsArrow(v.effects) => v.prev = h.prev

\* A window event on a wide split parent with the store Vertical sent "split
\* horizontal" and printed the right arrow, as it does with the store
\* Horizontal.
Wit_C20 ==
    /\ event.kind = "window"
    /\ before = Vertical
    /\ effects = <<Call_get_tree(Ok), Call_run_command(S_split_horizontal, Ok),
                   Println(Line_right)>>
    /\ PREVIOUS_SPLIT = Horizontal
    /\ Outcome(set_layout(I3Connection(tree, TRUE, TRUE), Horizontal))
         = [effects |-> effects, store |-> PREVIOUS_SPLIT]

====
